---- MODULE Spec2Model ----
(***************************************************************************)
(* Peer selection (src/src/peer_select.cc): one selection context          *)
(* (ps_state) from peerSelect() to peerSelectStateFree(), driven by ACL    *)
(* completions, ICP/HTCP replies, the ping timer and DNS results.          *)
(*                                                                         *)
(* Build modelled: USE_ICMP, USE_HTCP and USE_CACHE_DIGESTS defined.       *)
(* Timestamps (ping.start, ping.stop, ping.timeout) and the text debugs()  *)
(* writes are not state of the model.                                      *)
(***************************************************************************)
EXTENDS Integers, Sequences, FiniteSets, TLC

VARIABLES
    request,      \* HttpRequest: flags and protocol (read-only for the selection)
    Config,       \* squid.conf settings read by the selection
    entry,        \* StoreEntry handed to peerSelect (present = non-NULL)
    ps,           \* ps_state
    paths,        \* Comm::ConnectionList filled for the caller
    PeerStats,    \* static struct PeerStats
    ev,           \* outstanding work in the collaborators and the caller's cbdata
    world,        \* the answers the collaborators can give in this run
    hist          \* observations of the run (what was launched, appended, called)

vars == <<request, Config, entry, ps, paths, PeerStats, ev, world, hist>>

(***************************************************************************)
(* Bounds of the model                                                     *)
(***************************************************************************)
\* Config.forward_max_tries
forward_max_tries == 2
\* largest ia->count a DNS answer carries
MaxAddrs == 2
\* largest number of neighbors neighborsUdpPing() queries in the main specification
MaxPings == 2
\* largest number of neighbors neighborsUdpPing() queries in SpecReplies
MaxReplies == 3
\* largest RTT (msec) an ICP reply or the net-db reports
MaxRtt == 2

NULL == "NULL"
\* Ip::Address::IsAnyAddr(): the unset address
ANY_ADDR == "ANY_ADDR"

\* Config.peers, in list order; an address identifies its peer (whichPeer)
Peers == <<"P1", "P2", "S1">>
PeerSet == {Peers[i] : i \in 1..Len(Peers)}

neighborType(p) == IF p = "S1" THEN "PEER_SIBLING" ELSE "PEER_PARENT"

\* peer->options.closest_only
closest_only(p) == p = "P2"

\* peer->options.no_tproxy
no_tproxy(p) == p = "S1"

\* peer->basetime, peer->weight
basetime(p) == 0
weight(p) == 1

\* Ip::Address::IsIPv4() of the addresses a DNS answer carries
IsIPv4(a) == a % 2 = 1

whichPeer(addr) == IF addr = ANY_ADDR THEN NULL ELSE addr

\* Config.minDirectRtt, Config.minDirectHops (msec, hops)
minDirectRtt == 1
minDirectHops == 1

(***************************************************************************)
(* The state a handler works on, threaded through the calls it makes       *)
(***************************************************************************)
Cur == [ps |-> ps, entry |-> entry, paths |-> paths, PeerStats |-> PeerStats,
        ev |-> ev, hist |-> hist]

Commit(m) ==
    /\ ps' = m.ps
    /\ entry' = m.entry
    /\ paths' = m.paths
    /\ PeerStats' = m.PeerStats
    /\ ev' = m.ev
    /\ hist' = m.hist
    /\ UNCHANGED <<request, Config, world>>

ping_data == [n_sent |-> 0, n_recv |-> 0, n_replies_expected |-> 0,
              timedout |-> 0, w_rtt |-> 0, p_rtt |-> 0]

\* ps_state::ps_state(), then the assignments of peerSelect()
ps_state == [always_direct |-> 0, never_direct |-> 0, direct |-> "DIRECT_UNKNOWN",
             callback |-> TRUE, callback_data |-> TRUE,
             servers |-> <<>>,
             first_parent_miss |-> ANY_ADDR, closest_parent_miss |-> ANY_ADDR,
             hit |-> NULL, hit_type |-> "PEER_NONE",
             acl_checklist |-> NULL, ping |-> ping_data,
             freed |-> FALSE]

\* cbdataReferenceValid(psstate): what the event queue and the ipcache test
\* before they run a callback registered with the context as its data
psstateValid(m) == ~m.ps.freed /\ ~m.ev.crashed

peerAddFwdServer(m, p, code) ==
    LET fs == [_peer |-> p, code |-> code]
    IN [m EXCEPT !.ps.servers = Append(@, fs),
                 !.hist.appended = Append(@, fs)]

\* what hist.calls records when world.log is set: the function entered and
\* the number of records appended so far
Called(m, fn) ==
    IF world.log
    THEN [m EXCEPT !.hist.calls = Append(@, [fn |-> fn, at |-> Len(m.hist.appended)])]
    ELSE m

peerSelectStateFree(m) ==
    LET m1 == IF m.entry.present
              THEN [m EXCEPT !.ev.timer = IF m.entry.ping_status = "PING_WAITING"
                                          THEN 0 ELSE @,
                             !.entry.ping_status = "PING_DONE"]
              ELSE m
        m2 == IF m1.ps.acl_checklist # NULL
              THEN [m1 EXCEPT !.ps.acl_checklist = NULL, !.ev.acl = 0]
              ELSE m1
        m3 == [m2 EXCEPT !.ev.request_locks = @ - 1]
        m4 == IF m3.entry.present
              THEN [m3 EXCEPT !.entry.lock_count = @ - 1]
              ELSE m3
    IN [m4 EXCEPT !.ps.freed = TRUE]

\* variant: the callback is delivered but the context is not released
peerSelectDnsPaths_NoFree(m) ==
    IF m.ps.servers # <<>> /\ Len(m.paths) < forward_max_tries
    THEN [m EXCEPT !.ev.dns = @ + 1]
    ELSE IF m.ev.caller_valid
         THEN [m EXCEPT !.ps.callback = FALSE,
                        !.hist.callbacks = @ + 1,
                        !.hist.cb_ping_status =
                            IF m.entry.present THEN m.entry.ping_status ELSE "NO_ENTRY",
                        !.ps.callback_data = FALSE]
         ELSE [m EXCEPT !.ps.callback = FALSE, !.ps.callback_data = FALSE]

\* variant: the callback is delivered without testing the caller's reference
peerSelectDnsPaths_NoValidCheck(m) ==
    IF m.ps.servers # <<>> /\ Len(m.paths) < forward_max_tries
    THEN [m EXCEPT !.ev.dns = @ + 1]
    ELSE peerSelectStateFree(
             [m EXCEPT !.ps.callback = FALSE,
                       !.hist.callbacks = @ + 1,
                       !.hist.cb_ping_status =
                           IF m.entry.present THEN m.entry.ping_status ELSE "NO_ENTRY",
                       !.ps.callback_data = FALSE])

peerSelectDnsPaths(m) ==
    IF m.ps.servers # <<>> /\ Len(m.paths) < forward_max_tries
    THEN [m EXCEPT !.ev.dns = @ + 1]
    ELSE LET m1 == [m EXCEPT !.ps.callback = FALSE]
             m2 == IF m1.ev.caller_valid
                   THEN [m1 EXCEPT !.hist.callbacks = @ + 1,
                                   !.hist.cb_ping_status =
                                       IF m1.entry.present THEN m1.entry.ping_status
                                       ELSE "NO_ENTRY",
                                   !.ps.callback_data = FALSE]
                   ELSE [m1 EXCEPT !.ps.callback_data = FALSE]
         IN peerSelectStateFree(m2)

\* variant: the loop without its test of paths.size() against forward_max_tries
RECURSIVE DnsResultsLoop_NoCap(_, _, _, _, _)
DnsResultsLoop_NoCap(m, fs, ia, n, ip) ==
    IF n >= ia.count THEN m
    ELSE LET ip1 == IF ip >= ia.count THEN 0 ELSE ip
         IN IF /\ request.flags.spoof_client_ip
               /\ ~(fs._peer # NULL /\ no_tproxy(fs._peer))
               /\ IsIPv4(ia.in_addrs[n + 1]) # request.client_addr_IsIPv4
            THEN DnsResultsLoop_NoCap(m, fs, ia, n + 1, ip1 + 1)
            ELSE LET p == [remote |-> ia.in_addrs[n + 1],
                           port |-> IF fs._peer # NULL THEN "peer_http_port"
                                    ELSE "request_port",
                           peerType |-> fs.code]
                 IN DnsResultsLoop_NoCap([m EXCEPT !.paths = Append(@, p)],
                                         fs, ia, n + 1, ip1 + 1)

\* variant: the loop without the address-family test for TPROXY
RECURSIVE DnsResultsLoop_NoFamilyTest(_, _, _, _, _)
DnsResultsLoop_NoFamilyTest(m, fs, ia, n, ip) ==
    IF n >= ia.count THEN m
    ELSE LET ip1 == IF ip >= ia.count THEN 0 ELSE ip
         IN IF Len(m.paths) >= forward_max_tries THEN m
            ELSE LET p == [remote |-> ia.in_addrs[n + 1],
                           port |-> IF fs._peer # NULL THEN "peer_http_port"
                                    ELSE "request_port",
                           peerType |-> fs.code]
                 IN DnsResultsLoop_NoFamilyTest([m EXCEPT !.paths = Append(@, p)],
                                                fs, ia, n + 1, ip1 + 1)

\* the for loop of peerSelectDnsResults, from iteration n with index ip
RECURSIVE DnsResultsLoop(_, _, _, _, _)
DnsResultsLoop(m, fs, ia, n, ip) ==
    IF n >= ia.count THEN m
    ELSE LET ip1 == IF ip >= ia.count THEN 0 ELSE ip
         IN IF Len(m.paths) >= forward_max_tries THEN m
            ELSE IF /\ request.flags.spoof_client_ip
                    /\ ~(fs._peer # NULL /\ no_tproxy(fs._peer))
                    /\ IsIPv4(ia.in_addrs[n + 1]) # request.client_addr_IsIPv4
                 THEN DnsResultsLoop(m, fs, ia, n + 1, ip1 + 1)
            ELSE LET p == [remote |-> ia.in_addrs[n + 1],
                           port |-> IF fs._peer # NULL THEN "peer_http_port"
                                    ELSE "request_port",
                           peerType |-> fs.code]
                 IN DnsResultsLoop([m EXCEPT !.paths = Append(@, p)],
                                   fs, ia, n + 1, ip1 + 1)

\* what hist.dns_log records when world.log is set: the head record, the
\* addresses handed to peerSelectDnsResults and the length of paths
DnsLogged(m, ia) ==
    IF world.log
    THEN [m EXCEPT !.hist.dns_log =
                       Append(@, [fs |-> Head(m.ps.servers), ia |-> ia,
                                  at |-> Len(m.paths)])]
    ELSE m

peerSelectDnsResults(m, ia) ==
    LET fs == Head(m.ps.servers)
        m0 == DnsLogged(m, ia)
        m1 == IF ia.count # 0 THEN DnsResultsLoop(m0, fs, ia, 0, ia.cur) ELSE m0
        m2 == [m1 EXCEPT !.ps.servers = Tail(@)]
    IN peerSelectDnsPaths(m2)

\* variant: the check without its test of direct == DIRECT_NO
peerCheckNetdbDirect_NoGate(m, nd) ==
    IF nd.rtt # 0 /\ nd.rtt <= minDirectRtt THEN TRUE
    ELSE IF nd.hops # 0 /\ nd.hops <= minDirectHops THEN TRUE
    ELSE IF whichPeer(m.ps.closest_parent_miss) = NULL THEN FALSE
    ELSE IF nd.rtt # 0 /\ nd.rtt <= m.ps.ping.p_rtt THEN TRUE
    ELSE FALSE

\* nd: what netdbHostRtt() and netdbHostHops() answer for the request's host
peerCheckNetdbDirect(m, nd) ==
    IF m.ps.direct = "DIRECT_NO" THEN FALSE
    ELSE IF nd.rtt # 0 /\ nd.rtt <= minDirectRtt THEN TRUE
    ELSE IF nd.hops # 0 /\ nd.hops <= minDirectHops THEN TRUE
    ELSE IF whichPeer(m.ps.closest_parent_miss) = NULL THEN FALSE
    ELSE IF nd.rtt # 0 /\ nd.rtt <= m.ps.ping.p_rtt THEN TRUE
    ELSE FALSE

\* variant: loopdetect is tested before no_direct
peerSelectFooDirect_LoopFirst(m, nd) ==
    LET launch(list) == [m EXCEPT !.ps.acl_checklist = list,
                                  !.ev.acl = @ + 1,
                                  !.hist.acl_checks = Append(@, list)]
        decide(d) == [m EXCEPT !.ps.direct = d]
    IN IF m.ps.direct # "DIRECT_UNKNOWN" THEN m
       ELSE IF m.ps.always_direct = 0 /\ Config.accessList.AlwaysDirect
            THEN launch("AlwaysDirect")
       ELSE IF m.ps.always_direct > 0 THEN decide("DIRECT_YES")
       ELSE IF m.ps.never_direct = 0 /\ Config.accessList.NeverDirect
            THEN launch("NeverDirect")
       ELSE IF m.ps.never_direct > 0 THEN decide("DIRECT_NO")
       ELSE IF request.flags.loopdetect THEN decide("DIRECT_YES")
       ELSE IF request.flags.no_direct THEN decide("DIRECT_NO")
       ELSE [decide(IF peerCheckNetdbDirect(m, nd) THEN "DIRECT_YES" ELSE "DIRECT_MAYBE")
                 EXCEPT !.hist.netdb_arbiter = nd]

\* lines 338-376 of peerSelectFoo: the decision on direct, or the launch of an
\* ACL check (acl_checklist set, the caller returns)
peerSelectFooDirect(m, nd) ==
    LET launch(list) == [m EXCEPT !.ps.acl_checklist = list,
                                  !.ev.acl = @ + 1,
                                  !.hist.acl_checks = Append(@, list)]
        decide(d) == [m EXCEPT !.ps.direct = d]
    IN IF m.ps.direct # "DIRECT_UNKNOWN" THEN m
       ELSE IF m.ps.always_direct = 0 /\ Config.accessList.AlwaysDirect
            THEN launch("AlwaysDirect")
       ELSE IF m.ps.always_direct > 0 THEN decide("DIRECT_YES")
       ELSE IF m.ps.never_direct = 0 /\ Config.accessList.NeverDirect
            THEN launch("NeverDirect")
       ELSE IF m.ps.never_direct > 0 THEN decide("DIRECT_NO")
       ELSE IF request.flags.no_direct THEN decide("DIRECT_NO")
       ELSE IF request.flags.loopdetect THEN decide("DIRECT_YES")
       ELSE [decide(IF peerCheckNetdbDirect(m, nd) THEN "DIRECT_YES" ELSE "DIRECT_MAYBE")
                 EXCEPT !.hist.netdb_arbiter = nd]

\* what hist.pin_log records when world.log is set: the pinned connection
\* one call of peerSelectPinned finds
PinnedCalled(m, pin) ==
    LET m0 == Called(m, "peerSelectPinned")
    IN IF world.log
       THEN [m0 EXCEPT !.hist.pin_log = Append(@, pin)]
       ELSE m0

\* variant: the pinned record is appended but the ICP phase is not skipped
peerSelectPinned_NoSkipIcp(m, pin) ==
    LET m0 == PinnedCalled(m, pin)
    IN IF ~pin.conn THEN m0
       ELSE IF ~pin.open THEN m0
       ELSE IF pin.pear # NULL /\ pin.allowed
            THEN peerAddFwdServer(m0, pin.pear, "PINNED")
       ELSE IF pin.pear = NULL /\ m0.ps.direct # "DIRECT_NO"
            THEN peerAddFwdServer(m0, NULL, "PINNED")
       ELSE m0

\* pin: request->pinnedConnection() (conn), its pinnedPeer() (pear), whether
\* validatePinnedConnection() gives an open connection, peerAllowedToUse(pear)
peerSelectPinned(m, pin) ==
    LET skipIcp(x) == IF x.entry.present
                      THEN [x EXCEPT !.entry.ping_status = "PING_DONE"]
                      ELSE x
        m0 == PinnedCalled(m, pin)
    IN IF ~pin.conn THEN m0
       ELSE IF ~pin.open THEN m0
       ELSE IF pin.pear # NULL /\ pin.allowed
            THEN skipIcp(peerAddFwdServer(m0, pin.pear, "PINNED"))
       ELSE IF pin.pear = NULL /\ m0.ps.direct # "DIRECT_NO"
            THEN skipIcp(peerAddFwdServer(m0, NULL, "PINNED"))
       ELSE m0

\* variant: a privately keyed entry is pinged whatever the configuration says
peerSelectIcpPing_NoPrivateGate(m, n) ==
    IF ~request.flags.hierarchical /\ m.ps.direct # "DIRECT_NO" THEN 0
    ELSE n

\* n: neighborsCount(request)
peerSelectIcpPing(m, n) ==
    IF ~request.flags.hierarchical /\ m.ps.direct # "DIRECT_NO" THEN 0
    ELSE IF /\ m.entry.KEY_PRIVATE
            /\ ~Config.neighbors_do_private_keys
            /\ m.ps.direct # "DIRECT_NO"
         THEN 0
    ELSE n

\* variant: ping_status becomes WAITING without the ping timer being installed
peerGetSomeNeighbor_NoTimer(m, nb) ==
    LET done(x) == [x EXCEPT !.entry.ping_status = "PING_DONE"]
    IN IF m.ps.direct = "DIRECT_YES" THEN done(m)
       ELSE IF nb.digest # NULL
            THEN done(peerAddFwdServer(m, nb.digest,
                        IF neighborType(nb.digest) = "PEER_PARENT"
                        THEN "CD_PARENT_HIT" ELSE "CD_SIBLING_HIT"))
       ELSE IF nb.closest # NULL
            THEN done(peerAddFwdServer(m, nb.closest, "CLOSEST_PARENT"))
       ELSE IF peerSelectIcpPing(m, nb.count) # 0
            THEN LET m1 == [m EXCEPT !.ps.ping.n_sent = nb.n_sent,
                                     !.ps.ping.n_replies_expected = nb.n_replies_expected,
                                     !.hist.udp_pings = @ + 1]
                 IN IF nb.n_replies_expected > 0
                    THEN [m1 EXCEPT !.entry.ping_status = "PING_WAITING"]
                    ELSE done(m1)
       ELSE done(m)

\* variant: the neighbor query without its early return on direct == DIRECT_YES
peerGetSomeNeighbor_NoYesCheck(m, nb) ==
    LET done(x) == [x EXCEPT !.entry.ping_status = "PING_DONE"]
    IN IF nb.digest # NULL
       THEN done(peerAddFwdServer(m, nb.digest,
                   IF neighborType(nb.digest) = "PEER_PARENT"
                   THEN "CD_PARENT_HIT" ELSE "CD_SIBLING_HIT"))
       ELSE IF nb.closest # NULL
            THEN done(peerAddFwdServer(m, nb.closest, "CLOSEST_PARENT"))
       ELSE IF peerSelectIcpPing(m, nb.count) # 0
            THEN LET m1 == [m EXCEPT !.ps.ping.n_sent = nb.n_sent,
                                     !.ps.ping.n_replies_expected = nb.n_replies_expected,
                                     !.hist.udp_pings = @ + 1]
                 IN IF nb.n_replies_expected > 0
                    THEN [m1 EXCEPT !.entry.ping_status = "PING_WAITING",
                                    !.ev.timer = @ + 1,
                                    !.hist.timers_added = @ + 1]
                    ELSE done(m1)
       ELSE done(m)

\* nb: neighborsDigestSelect() (digest), netdbClosestParent() (closest),
\* neighborsCount() (count), and what neighborsUdpPing() returns and sets
peerGetSomeNeighbor(m, nb) ==
    LET done(x) == [x EXCEPT !.entry.ping_status = "PING_DONE"]
        m0 == Called(m, "peerGetSomeNeighbor")
    IN IF m0.ps.direct = "DIRECT_YES" THEN done(m0)
       ELSE IF nb.digest # NULL
            THEN done(peerAddFwdServer(m0, nb.digest,
                        IF neighborType(nb.digest) = "PEER_PARENT"
                        THEN "CD_PARENT_HIT" ELSE "CD_SIBLING_HIT"))
       ELSE IF nb.closest # NULL
            THEN done(peerAddFwdServer(m0, nb.closest, "CLOSEST_PARENT"))
       ELSE IF peerSelectIcpPing(m0, nb.count) # 0
            THEN LET m1 == [m0 EXCEPT !.ps.ping.n_sent = nb.n_sent,
                                     !.ps.ping.n_replies_expected = nb.n_replies_expected,
                                     !.hist.udp_pings = @ + 1]
                 IN IF nb.n_replies_expected > 0
                    THEN [m1 EXCEPT !.entry.ping_status = "PING_WAITING",
                                    !.ev.timer = @ + 1,
                                    !.hist.timers_added = @ + 1]
                    ELSE done(m1)
       ELSE done(m0)

\* variant: first_parent_miss is preferred to closest_parent_miss
peerGetSomeNeighborReplies_FirstMissFirst(m, nd) ==
    IF peerCheckNetdbDirect(m, nd)
    THEN peerAddFwdServer(m, NULL, "CLOSEST_DIRECT")
    ELSE IF m.ps.hit # NULL
         THEN peerAddFwdServer(m, m.ps.hit,
                  IF m.ps.hit_type = "PEER_PARENT" THEN "PARENT_HIT" ELSE "SIBLING_HIT")
    ELSE IF whichPeer(m.ps.first_parent_miss) # NULL
         THEN peerAddFwdServer(m, whichPeer(m.ps.first_parent_miss),
                               "FIRST_PARENT_MISS")
    ELSE IF whichPeer(m.ps.closest_parent_miss) # NULL
         THEN peerAddFwdServer(m, whichPeer(m.ps.closest_parent_miss),
                               "CLOSEST_PARENT_MISS")
    ELSE m

\* variant: the parent MISS records are preferred to the HIT
peerGetSomeNeighborReplies_MissFirst(m, nd) ==
    IF peerCheckNetdbDirect(m, nd)
    THEN peerAddFwdServer(m, NULL, "CLOSEST_DIRECT")
    ELSE IF whichPeer(m.ps.closest_parent_miss) # NULL
         THEN peerAddFwdServer(m, whichPeer(m.ps.closest_parent_miss),
                               "CLOSEST_PARENT_MISS")
    ELSE IF whichPeer(m.ps.first_parent_miss) # NULL
         THEN peerAddFwdServer(m, whichPeer(m.ps.first_parent_miss),
                               "FIRST_PARENT_MISS")
    ELSE IF m.ps.hit # NULL
         THEN peerAddFwdServer(m, m.ps.hit,
                  IF m.ps.hit_type = "PEER_PARENT" THEN "PARENT_HIT" ELSE "SIBLING_HIT")
    ELSE m

peerGetSomeNeighborReplies(m, nd) ==
    IF peerCheckNetdbDirect(m, nd)
    THEN peerAddFwdServer(m, NULL, "CLOSEST_DIRECT")
    ELSE IF m.ps.hit # NULL
         THEN peerAddFwdServer(m, m.ps.hit,
                  IF m.ps.hit_type = "PEER_PARENT" THEN "PARENT_HIT" ELSE "SIBLING_HIT")
    ELSE IF m.ps.closest_parent_miss # ANY_ADDR
         THEN LET p == whichPeer(m.ps.closest_parent_miss)
              IN IF p # NULL THEN peerAddFwdServer(m, p, "CLOSEST_PARENT_MISS") ELSE m
    ELSE IF m.ps.first_parent_miss # ANY_ADDR
         THEN LET p == whichPeer(m.ps.first_parent_miss)
              IN IF p # NULL THEN peerAddFwdServer(m, p, "FIRST_PARENT_MISS") ELSE m
    ELSE m

peerGetSomeDirect(m) ==
    LET m0 == Called(m, "peerGetSomeDirect")
    IN IF m0.ps.direct = "DIRECT_NO" THEN m0
       ELSE IF request.protocol = "PROTO_WAIS" THEN m0
       ELSE peerAddFwdServer(m0, NULL, "HIER_DIRECT")

\* the hier_code of each parent strategy, in the order peerGetSomeParent asks
StrategyCode == <<"DEFAULT_PARENT", "USERHASH_PARENT", "SOURCEHASH_PARENT", "CARP",
                  "ROUNDROBIN_PARENT", "ROUNDROBIN_PARENT", "FIRSTUP_PARENT",
                  "ANY_OLD_PARENT">>

\* what hist.par_log records when world.log is set: the answers of the parent
\* strategies to one call of peerGetSomeParent
ParentCalled(m, par) ==
    LET m0 == Called(m, "peerGetSomeParent")
    IN IF world.log
       THEN [m0 EXCEPT !.hist.par_log = Append(@, par)]
       ELSE m0

\* variant: the last strategy that answers wins
peerGetSomeParent_LastWins(m, par) ==
    LET m0 == ParentCalled(m, par)
    IN IF m0.ps.direct = "DIRECT_YES" THEN m0
       ELSE LET found == {i \in 1..Len(StrategyCode) : par[i] # NULL}
            IN IF found = {} THEN m0
               ELSE LET i == CHOOSE j \in found : \A k \in found : j >= k
                    IN peerAddFwdServer(m0, par[i], StrategyCode[i])

\* par[i]: what the i-th strategy returns (getDefaultParent is par[1])
peerGetSomeParent(m, par) ==
    LET m0 == ParentCalled(m, par)
    IN IF m0.ps.direct = "DIRECT_YES" THEN m0
       ELSE LET found == {i \in 1..Len(StrategyCode) : par[i] # NULL}
            IN IF found = {} THEN m0
               ELSE LET i == CHOOSE j \in found : \A k \in found : j <= k
                    IN peerAddFwdServer(m0, par[i], StrategyCode[i])

\* the loop of peerGetAllParents over Config.peers from position i;
\* okay: the peers peerHTTPOkay() accepts
RECURSIVE AllParentsLoop(_, _, _)
AllParentsLoop(m, okay, i) ==
    IF i > Len(Peers) THEN m
    ELSE IF neighborType(Peers[i]) # "PEER_PARENT" THEN AllParentsLoop(m, okay, i + 1)
    ELSE IF Peers[i] \notin okay THEN AllParentsLoop(m, okay, i + 1)
    ELSE AllParentsLoop(peerAddFwdServer(m, Peers[i], "ANY_OLD_PARENT"), okay, i + 1)

peerGetAllParents(m, par, okay) ==
    LET m1 == AllParentsLoop(Called(m, "peerGetAllParents"), okay, 1)
    IN IF par[1] # NULL THEN peerAddFwdServer(m1, par[1], "DEFAULT_PARENT") ELSE m1

(***************************************************************************)
(* What the collaborators can answer                                       *)
(***************************************************************************)
\* the net-db knows neither RTT nor hops
NoNetdb == [rtt |-> 0, hops |-> 0]
NetdbVals == [rtt : 0..MaxRtt, hops : 0..MaxRtt]

PinVals == {[conn |-> FALSE, pear |-> NULL, open |-> FALSE, allowed |-> FALSE]}
           \cup [conn : {TRUE}, pear : {NULL, "P1"}, open : BOOLEAN, allowed : BOOLEAN]

NoPing == [digest |-> NULL, closest |-> NULL, count |-> 0, n_sent |-> 0,
           n_replies_expected |-> 0]
NbVals == {[NoPing EXCEPT !.digest = d] : d \in {"P1", "S1"}}
          \cup {[NoPing EXCEPT !.closest = "P2"]}
          \cup {nb \in [digest : {NULL}, closest : {NULL}, count : 0..MaxReplies,
                         n_sent : 0..MaxReplies, n_replies_expected : 0..MaxReplies] :
                    nb.n_sent = nb.count /\ nb.n_replies_expected <= nb.n_sent}

NoParent == [i \in 1..Len(StrategyCode) |-> NULL]
ParVals == {NoParent}
           \cup {[NoParent EXCEPT ![i] = p] : i \in 1..Len(StrategyCode), p \in {"P1", "P2"}}
           \cup {[NoParent EXCEPT ![i] = "P1", ![j] = "P2"] :
                    i \in 1..Len(StrategyCode), j \in 1..Len(StrategyCode)}

Parents == {p \in PeerSet : neighborType(p) = "PEER_PARENT"}

\* ipcache_addrs: count addresses, the current one at index cur
IpcacheAddrs == {[count |-> c, cur |-> k, in_addrs |-> [i \in 1..c |-> i]] :
                    c \in 1..MaxAddrs, k \in 0..(MaxAddrs - 1)}
\* ia == NULL (the host does not resolve)
NullAddrs == [count |-> 0, cur |-> 0, in_addrs |-> <<>>]
DnsVals == {NullAddrs} \cup {ia \in IpcacheAddrs : ia.cur < ia.count}

IcpHeaders == [opcode : {"ICP_HIT", "ICP_MISS", "ICP_DECHO", "ICP_ERR"},
               src_rtt : BOOLEAN, rtt : 0..MaxRtt]

HtcpReplies == [hit : BOOLEAN, cto_rtt : 0..1]

(***************************************************************************)
(* peerSelectFoo                                                           *)
(***************************************************************************)
\* lines 378-390: the pinned probe and the neighbor phase; every state the
\* collaborators' answers can lead to
\* variant: ping_status goes back to NONE after the replies are aggregated
NeighborPhase_BackToNone(a) ==
    LET pinned == IF ~a.entry.present \/ a.entry.ping_status = "PING_NONE"
                  THEN {peerSelectPinned(a, pin) : pin \in world.pinned}
                  ELSE {a}
        neighbor(b) ==
            IF ~b.entry.present THEN {b}
            ELSE IF b.entry.ping_status = "PING_NONE"
                 THEN {peerGetSomeNeighbor(b, nb) : nb \in world.neighbors}
            ELSE IF b.entry.ping_status = "PING_WAITING"
                 THEN {[peerGetSomeNeighborReplies(b, nd)
                            EXCEPT !.entry.ping_status = "PING_NONE",
                                   !.hist.netdb_replies = peerCheckNetdbDirect(b, nd)] :
                          nd \in world.netdb}
            ELSE {b}
    IN UNION {neighbor(b) : b \in pinned}

NeighborPhase(a) ==
    LET pinned == IF ~a.entry.present \/ a.entry.ping_status = "PING_NONE"
                  THEN {peerSelectPinned(a, pin) : pin \in world.pinned}
                  ELSE {a}
        neighbor(b) ==
            IF ~b.entry.present THEN {b}
            ELSE IF b.entry.ping_status = "PING_NONE"
                 THEN {peerGetSomeNeighbor(b, nb) : nb \in world.neighbors}
            ELSE IF b.entry.ping_status = "PING_WAITING"
                 THEN {[peerGetSomeNeighborReplies(b, nd)
                            EXCEPT !.entry.ping_status = "PING_DONE",
                                   !.hist.netdb_replies = peerCheckNetdbDirect(b, nd)] :
                          nd \in world.netdb}
            ELSE {b}
    IN UNION {neighbor(b) : b \in pinned}

\* variant: with direct MAYBE the direct record always comes last
DirectSwitch_DirectLast(c) ==
    IF c.ps.direct = "DIRECT_YES" THEN {peerGetSomeDirect(c)}
    ELSE IF c.ps.direct = "DIRECT_NO"
         THEN {peerGetAllParents(peerGetSomeParent(c, par), par, okay) :
                   par \in world.parents, okay \in world.okay}
    ELSE IF request.flags.hierarchical \/ ~Config.onoff.nonhierarchical_direct
         THEN {peerGetSomeDirect(peerGetSomeParent(c, par)) : par \in world.parents}
         ELSE {peerGetSomeDirect(c)}

\* lines 392-415: the switch on ps->direct
DirectSwitch(c) ==
    IF c.ps.direct = "DIRECT_YES" THEN {peerGetSomeDirect(c)}
    ELSE IF c.ps.direct = "DIRECT_NO"
         THEN {peerGetAllParents(peerGetSomeParent(c, par), par, okay) :
                   par \in world.parents, okay \in world.okay}
    ELSE LET c1 == IF Config.onoff.prefer_direct THEN peerGetSomeDirect(c) ELSE c
             last(x) == IF ~Config.onoff.prefer_direct THEN peerGetSomeDirect(x) ELSE x
         IN IF request.flags.hierarchical \/ ~Config.onoff.nonhierarchical_direct
            THEN {last(peerGetSomeParent(c1, par)) : par \in world.parents}
            ELSE {last(c1)}

peerSelectFoo(m) ==
    \E a \in {peerSelectFooDirect(m, nd) : nd \in world.netdb} :
        IF a.ps.acl_checklist # NULL
        THEN Commit(a)
        ELSE \E c \in NeighborPhase(a) :
                IF c.entry.present /\ c.entry.ping_status = "PING_WAITING"
                THEN Commit(c)
                ELSE \E d \in DirectSwitch(c) : Commit(peerSelectDnsPaths(d))

(***************************************************************************)
(* Reply handlers                                                          *)
(***************************************************************************)
\* the part of peerIcpParentMiss and peerHtcpParentMiss after the RTT update;
\* tv: tvSubMsec(ps->ping.start, current_time)
FirstParentMiss(m, p, tv) ==
    IF closest_only(p) THEN m
    ELSE IF m.ps.closest_parent_miss # ANY_ADDR THEN m
    ELSE LET r0 == (tv - basetime(p)) \div weight(p)
             rtt == IF r0 < 1 THEN 1 ELSE r0
         IN IF m.ps.first_parent_miss = ANY_ADDR \/ rtt < m.ps.ping.w_rtt
            THEN [m EXCEPT !.ps.first_parent_miss = p, !.ps.ping.w_rtt = rtt]
            ELSE m

\* variant: a reply that reports the same rtt replaces the recorded peer
ClosestParentMiss_LastOnTie(m, p, rtt) ==
    IF rtt # 0 /\ (m.ps.ping.p_rtt = 0 \/ rtt <= m.ps.ping.p_rtt)
    THEN [m EXCEPT !.ps.closest_parent_miss = p, !.ps.ping.p_rtt = rtt]
    ELSE m

ClosestParentMiss(m, p, rtt) ==
    IF rtt # 0 /\ (m.ps.ping.p_rtt = 0 \/ rtt < m.ps.ping.p_rtt)
    THEN [m EXCEPT !.ps.closest_parent_miss = p, !.ps.ping.p_rtt = rtt]
    ELSE m

peerIcpParentMiss(m, p, header, tv) ==
    LET m0 == IF world.log /\ Config.onoff.query_icmp /\ header.src_rtt
              THEN [m EXCEPT !.hist.rtt_replies =
                                 Append(@, [_peer |-> p, rtt |-> header.rtt])]
              ELSE m
        m1 == IF Config.onoff.query_icmp /\ header.src_rtt
              THEN ClosestParentMiss(m0, p, header.rtt)
              ELSE m0
    IN FirstParentMiss(m1, p, tv)

peerHtcpParentMiss(m, p, htcp, tv) ==
    LET m0 == IF world.log /\ Config.onoff.query_icmp /\ htcp.cto_rtt > 0
              THEN [m EXCEPT !.hist.rtt_replies =
                                 Append(@, [_peer |-> p, rtt |-> htcp.cto_rtt * 1000])]
              ELSE m
        m1 == IF Config.onoff.query_icmp /\ htcp.cto_rtt > 0
              THEN ClosestParentMiss(m0, p, htcp.cto_rtt * 1000)
              ELSE m0
    IN FirstParentMiss(m1, p, tv)

\* variant: a reply is handed to the ping callback whatever ping_status is
ReplyAccepted_AnyStatus(m) ==
    /\ psstateValid(m)
    /\ m.entry.present

\* neighborsUdpAck / neighborsHtcpReply hand a reply to the ping callback only
\* while the entry waits for replies; a late reply is counted and dropped
ReplyAccepted(m) ==
    /\ psstateValid(m)
    /\ m.entry.present
    /\ m.entry.ping_status = "PING_WAITING"

\* the handler's steps up to its call of peerSelectFoo or its return
IcpReplyState(m, p, header, tv) ==
    LET m0 == [m EXCEPT !.ps.ping.n_recv = @ + 1]
    IN IF header.opcode \in {"ICP_MISS", "ICP_DECHO"}
       THEN IF neighborType(p) = "PEER_PARENT"
            THEN peerIcpParentMiss(m0, p, header, tv) ELSE m0
       ELSE IF header.opcode = "ICP_HIT"
            THEN [m0 EXCEPT !.ps.hit = p, !.ps.hit_type = neighborType(p),
                            !.hist.first_hit = IF @ = NULL THEN p ELSE @]
       ELSE m0

\* a reply to one of the n_sent pings arrives while the context exists
ReplyArrives(m) ==
    /\ m.hist.started
    /\ psstateValid(m)
    /\ m.ev.arrived < m.ps.ping.n_sent

peerHandleIcpReply ==
    /\ ReplyArrives(Cur)
    /\ LET m0 == [Cur EXCEPT !.ev.arrived = @ + 1]
       IN IF ~ReplyAccepted(Cur) THEN world.late /\ Commit(m0)
          ELSE \E p \in world.repliers, header \in world.icp, tv \in world.tv :
                LET m1 == IcpReplyState(m0, p, header, tv)
                    fin == [m1 EXCEPT !.hist.early_final = TRUE]
                IN IF header.opcode = "ICP_HIT" THEN peerSelectFoo(fin)
                   ELSE IF m1.ps.ping.n_recv < m1.ps.ping.n_replies_expected
                        THEN Commit(m1)
                   ELSE peerSelectFoo(fin)

HtcpReplyState(m, p, htcp, tv) ==
    LET m0 == [m EXCEPT !.ps.ping.n_recv = @ + 1]
    IN IF htcp.hit
       THEN [m0 EXCEPT !.ps.hit = p, !.ps.hit_type = neighborType(p)]
       ELSE IF neighborType(p) = "PEER_PARENT"
            THEN peerHtcpParentMiss(m0, p, htcp, tv) ELSE m0

peerHandleHtcpReply ==
    /\ ReplyArrives(Cur)
    /\ LET m0 == [Cur EXCEPT !.ev.arrived = @ + 1]
       IN IF ~ReplyAccepted(Cur) THEN world.late /\ Commit(m0)
          ELSE \E p \in world.repliers, htcp \in world.htcp, tv \in world.tv :
                LET m1 == HtcpReplyState(m0, p, htcp, tv)
                    fin == [m1 EXCEPT !.hist.early_final = TRUE]
                IN IF htcp.hit THEN peerSelectFoo(fin)
                   ELSE IF m1.ps.ping.n_recv < m1.ps.ping.n_replies_expected
                        THEN Commit(m1)
                   ELSE peerSelectFoo(fin)

(***************************************************************************)
(* The other handlers                                                      *)
(***************************************************************************)
peerSelect ==
    /\ ~hist.started
    /\ LET m0 == [Cur EXCEPT !.hist.started = TRUE,
                             !.ev.request_locks = @ + 1,
                             !.entry.lock_count = IF entry.present THEN @ + 1 ELSE @]
       IN peerSelectFoo(m0)

peerCheckAlwaysDirectDone ==
    /\ ps.acl_checklist = "AlwaysDirect" /\ ev.acl > 0
    /\ \E answer \in BOOLEAN :
        peerSelectFoo([Cur EXCEPT !.ps.acl_checklist = NULL,
                                  !.ev.acl = @ - 1,
                                  !.ps.always_direct = IF answer THEN 1 ELSE -1])

peerCheckNeverDirectDone ==
    /\ ps.acl_checklist = "NeverDirect" /\ ev.acl > 0
    /\ \E answer \in BOOLEAN :
        peerSelectFoo([Cur EXCEPT !.ps.acl_checklist = NULL,
                                  !.ev.acl = @ - 1,
                                  !.ps.never_direct = IF answer THEN 1 ELSE -1])

\* variant: the timeout is counted but ping.timedout is not set
peerPingTimeoutState_NoTimedout(m) ==
    IF ~m.ev.caller_valid
    THEN peerSelectStateFree([m EXCEPT !.entry.ping_status = "PING_DONE",
                                       !.ps.callback_data = FALSE])
    ELSE [m EXCEPT !.PeerStats.timeouts = @ + 1]

peerPingTimeoutState(m) ==
    IF ~m.ev.caller_valid
    THEN peerSelectStateFree([m EXCEPT !.entry.ping_status = "PING_DONE",
                                       !.ps.callback_data = FALSE])
    ELSE [m EXCEPT !.PeerStats.timeouts = @ + 1, !.ps.ping.timedout = 1]

peerPingTimeout ==
    /\ ev.timer > 0
    /\ psstateValid(Cur)
    /\ LET m1 == peerPingTimeoutState([Cur EXCEPT !.ev.timer = @ - 1])
       IN IF m1.ps.freed THEN Commit(m1) ELSE peerSelectFoo(m1)

\* line 276: in debugs(44, 3, HERE << "Unknown host: " << fs->_peer ? ... : ...)
\* the << binds tighter than ?:, so the stream is the condition and, being
\* good, selects fs->_peer->host: with section 44 at level 3 (world.debug), no
\* addresses and a record without peer, the host is read through a null
\* pointer
UnknownHostDeref(m, ia) ==
    /\ world.debug
    /\ ia.count = 0
    /\ Head(m.ps.servers)._peer = NULL

\* the outcomes of peerSelectDnsResults: its code, and where the null pointer
\* is read also the end of the process (the read is undefined behaviour: a
\* build may drop the unused load or fault on it)
DnsOutcomes(m, ia) ==
    {peerSelectDnsResults(m, ia)}
        \cup IF UnknownHostDeref(m, ia)
             THEN {[DnsLogged(m, ia) EXCEPT !.ev.crashed = TRUE]}
             ELSE {}

DnsResults ==
    /\ ev.dns > 0
    /\ ps.servers # <<>>
    /\ psstateValid(Cur)
    /\ \E ia \in world.dns :
        \E out \in DnsOutcomes([Cur EXCEPT !.ev.dns = @ - 1], ia) : Commit(out)

\* the caller's callback_data is freed: cbdataReferenceValid() fails from now on
CallerGone ==
    /\ hist.started
    /\ psstateValid(Cur)
    /\ ev.caller_valid
    /\ Commit([Cur EXCEPT !.ev.caller_valid = FALSE])

(***************************************************************************)
(* Specification                                                           *)
(***************************************************************************)
AllRequests == [flags : [no_direct : BOOLEAN, loopdetect : BOOLEAN,
                         hierarchical : BOOLEAN, spoof_client_ip : BOOLEAN],
                protocol : {"PROTO_HTTP", "PROTO_WAIS"},
                client_addr_IsIPv4 : BOOLEAN]

\* the requests of an IPv4 client without TPROXY
Requests == {r \in AllRequests : ~r.flags.spoof_client_ip /\ r.client_addr_IsIPv4}

Configs == [accessList : [AlwaysDirect : BOOLEAN, NeverDirect : BOOLEAN],
            onoff : [prefer_direct : BOOLEAN, nonhierarchical_direct : BOOLEAN,
                     query_icmp : BOOLEAN],
            neighbors_do_private_keys : BOOLEAN]

Entries == {[present |-> FALSE, ping_status |-> "PING_NONE", lock_count |-> 0,
             KEY_PRIVATE |-> FALSE]}
           \cup [present : {TRUE}, ping_status : {"PING_NONE"}, lock_count : {0},
                 KEY_PRIVATE : BOOLEAN]

\* every answer the model knows
AnyWorld ==
    [pinned |-> PinVals, neighbors |-> NbVals, netdb |-> NetdbVals,
     parents |-> ParVals, okay |-> SUBSET Parents, repliers |-> PeerSet,
     icp |-> IcpHeaders, htcp |-> HtcpReplies, tv |-> 0..MaxRtt, dns |-> DnsVals,
     late |-> TRUE, log |-> TRUE, debug |-> FALSE]

\* the main specification: every interleaving of the handlers and every DNS
\* answer, with the fewest kinds of neighbor, parent and reply that reach them
MainWorld ==
    [AnyWorld EXCEPT
        !.pinned = {pin \in PinVals : pin.conn => (pin.open /\ pin.allowed /\ pin.pear # NULL)},
        !.neighbors = {nb \in NbVals : /\ nb.digest # "P1" /\ nb.closest = NULL
                                       /\ nb.count <= MaxPings},
        !.netdb = {nd \in NetdbVals : nd.hops = 0},
        !.parents = {par \in ParVals : \A i \in 2..Len(StrategyCode) : par[i] = NULL},
        !.okay = {{"P1"}},
        !.repliers = {"P1", "S1"},
        !.icp = {h \in IcpHeaders : /\ h.opcode \in {"ICP_HIT", "ICP_MISS"}
                                    /\ h.src_rtt /\ h.rtt <= 1},
        !.htcp = {h \in HtcpReplies : h.cto_rtt = 0},
        !.tv = {1},
        !.late = FALSE,
        !.log = FALSE]

MainRequests == {r \in Requests : ~r.flags.loopdetect /\ r.protocol = "PROTO_HTTP"}

MainConfigs == {c \in Configs : /\ c.accessList.AlwaysDirect
                                /\ c.accessList.NeverDirect
                                /\ c.onoff.query_icmp
                                /\ ~c.onoff.prefer_direct
                                /\ c.onoff.nonhierarchical_direct
                                /\ ~c.neighbors_do_private_keys}

MainEntries == {e \in Entries : ~e.KEY_PRIVATE}

InitWith(R, C, E, W) ==
    /\ request \in R
    /\ Config \in C
    /\ entry \in E
    /\ world = W
    /\ ps = ps_state
    /\ paths = <<>>
    /\ PeerStats = [timeouts |-> 0]
    /\ ev = [acl |-> 0, dns |-> 0, timer |-> 0, caller_valid |-> TRUE,
             request_locks |-> 0, arrived |-> 0, crashed |-> FALSE]
    /\ hist = [started |-> FALSE, callbacks |-> 0, cb_ping_status |-> "NONE",
               appended |-> <<>>, acl_checks |-> <<>>,
               netdb_arbiter |-> NoNetdb, netdb_replies |-> FALSE, udp_pings |-> 0,
               timers_added |-> 0, first_hit |-> NULL,
               early_final |-> FALSE, rtt_replies |-> <<>>,
               dns_log |-> <<>>, calls |-> <<>>, par_log |-> <<>>,
               pin_log |-> <<>>]

Init ==
    InitWith(MainRequests, MainConfigs, MainEntries, MainWorld)

\* SpecArbiter: every request flag, ACL configuration and net-db answer the
\* decision on direct reads; one neighbor to ping and no parent
ArbiterWorld ==
    [AnyWorld EXCEPT
        !.pinned = {pin \in PinVals : ~pin.conn},
        !.neighbors = {nb \in NbVals : /\ nb.digest = NULL /\ nb.closest = NULL
                                       /\ nb.count = 1 /\ nb.n_replies_expected = 1},
        !.parents = {NoParent},
        !.okay = {{}},
        !.repliers = {"S1"},
        !.icp = {h \in IcpHeaders : h.opcode = "ICP_HIT" /\ ~h.src_rtt /\ h.rtt = 0},
        !.htcp = {h \in HtcpReplies : h.hit /\ h.cto_rtt = 0},
        !.tv = {1},
        !.dns = {NullAddrs},
        !.late = FALSE,
        !.log = FALSE]

InitArbiter ==
    InitWith({r \in Requests : r.protocol = "PROTO_HTTP"},
             {c \in Configs : /\ c.onoff.query_icmp /\ ~c.onoff.prefer_direct
                              /\ c.onoff.nonhierarchical_direct
                              /\ ~c.neighbors_do_private_keys},
             MainEntries, ArbiterWorld)

\* SpecReplies: every ICP and HTCP reply from every peer, up to MaxReplies
\* expected replies; no parent strategy answers and no host resolves
RepliesWorld ==
    [AnyWorld EXCEPT
        !.pinned = {pin \in PinVals : ~pin.conn},
        !.neighbors = {nb \in NbVals : /\ nb.digest = NULL /\ nb.closest = NULL
                                       /\ nb.n_replies_expected >= 1},
        !.netdb = {nd \in NetdbVals : nd.hops = 0},
        !.parents = {NoParent},
        !.okay = {{}},
        !.dns = {NullAddrs},
        !.log = FALSE]

InitReplies ==
    InitWith({r \in Requests : /\ r.flags.hierarchical /\ ~r.flags.loopdetect
                               /\ ~r.flags.no_direct /\ r.protocol = "PROTO_HTTP"},
             {c \in Configs : /\ c.accessList.AlwaysDirect /\ c.accessList.NeverDirect
                              /\ ~c.onoff.prefer_direct /\ c.onoff.nonhierarchical_direct
                              /\ ~c.neighbors_do_private_keys},
             {e \in MainEntries : e.present}, RepliesWorld)

\* SpecMiss: every order of parent and sibling MISS replies with and without
\* RTT data, logged in hist.rtt_replies; no late reply, no parent strategy
\* answers and no host resolves
MissWorld ==
    [AnyWorld EXCEPT
        !.pinned = {pin \in PinVals : ~pin.conn},
        !.neighbors = {nb \in NbVals : /\ nb.digest = NULL /\ nb.closest = NULL
                                       /\ nb.n_replies_expected = MaxReplies},
        !.netdb = {NoNetdb},
        !.parents = {NoParent},
        !.okay = {{}},
        !.icp = {h \in IcpHeaders : h.opcode \in {"ICP_MISS", "ICP_HIT"}},
        !.tv = {1},
        !.dns = {NullAddrs},
        !.late = FALSE]

InitMiss ==
    InitWith({r \in Requests : /\ r.flags.hierarchical /\ ~r.flags.loopdetect
                               /\ ~r.flags.no_direct /\ r.protocol = "PROTO_HTTP"},
             {c \in MainConfigs : c.onoff.query_icmp},
             {e \in MainEntries : e.present}, MissWorld)

\* SpecSpoof: TPROXY requests of IPv4 and IPv6 clients; forward servers that
\* are a parent, a sibling with no_tproxy, or direct, and every DNS answer
SpoofWorld ==
    [AnyWorld EXCEPT
        !.pinned = {pin \in PinVals : ~pin.conn},
        !.neighbors = {nb \in NbVals : /\ nb.closest = NULL
                                       /\ nb.count <= 1},
        !.netdb = {NoNetdb},
        !.parents = {par \in ParVals : /\ par[1] \in {NULL, "P1"}
                                       /\ \A i \in 2..Len(StrategyCode) : par[i] = NULL},
        !.okay = {{}},
        !.repliers = {"S1"},
        !.icp = {h \in IcpHeaders : h.opcode = "ICP_HIT" /\ ~h.src_rtt /\ h.rtt = 0},
        !.htcp = {h \in HtcpReplies : h.hit /\ h.cto_rtt = 0},
        !.tv = {1},
        !.late = FALSE,
        !.log = FALSE]

InitSpoof ==
    InitWith({r \in AllRequests : /\ r.flags.spoof_client_ip /\ r.flags.hierarchical
                                  /\ ~r.flags.loopdetect /\ ~r.flags.no_direct
                                  /\ r.protocol = "PROTO_HTTP"},
             MainConfigs, {e \in MainEntries : e.present}, SpoofWorld)

\* SpecDns: the forward servers and DNS answers of SpecSpoof for requests
\* without TPROXY, each DNS result logged in hist.dns_log
DnsWorld == [SpoofWorld EXCEPT !.log = TRUE]

InitDns ==
    InitWith({r \in MainRequests : r.flags.hierarchical /\ ~r.flags.no_direct},
             MainConfigs, {e \in MainEntries : e.present}, DnsWorld)

\* SpecDebug: SpecDns with debug section 44 at level 3
DebugWorld == [DnsWorld EXCEPT !.debug = TRUE]

InitDebug ==
    InitWith({r \in MainRequests : r.flags.hierarchical /\ ~r.flags.no_direct},
             MainConfigs, {e \in MainEntries : e.present}, DebugWorld)

\* SpecPinned: every pinned connection a request can carry (none, to P1 or to
\* no peer, open or not, usable or not) with every arbiter decision, an entry
\* or none, a digest hit or one neighbor to ping, and a default parent or none
PinnedWorld ==
    [ArbiterWorld EXCEPT
        !.pinned = PinVals,
        !.neighbors = {nb \in NbVals : /\ nb.digest # "S1" /\ nb.closest = NULL
                                       /\ nb.count = 1 /\ nb.n_replies_expected = 1}
                      \cup {[NoPing EXCEPT !.digest = "S1"]},
        !.netdb = {NoNetdb},
        !.parents = {NoParent, [NoParent EXCEPT ![1] = "P2"]},
        !.log = TRUE]

InitPinned ==
    InitWith(MainRequests, MainConfigs, MainEntries, PinnedWorld)

\* SpecPing: every request flag, entry key and private-key setting that
\* peerSelectIcpPing reads, with the answers of SpecArbiter
InitPing ==
    InitWith({r \in Requests : r.protocol = "PROTO_HTTP" /\ ~r.flags.loopdetect},
             {c \in Configs : /\ c.accessList.AlwaysDirect /\ c.accessList.NeverDirect
                              /\ c.onoff.query_icmp /\ ~c.onoff.prefer_direct
                              /\ c.onoff.nonhierarchical_direct},
             {e \in Entries : e.present}, ArbiterWorld)

\* SpecParent: no, one or two neighbouring parent strategies answer, with P1
\* and P2 in either order; each call of the appenders logged in hist.calls;
\* one neighbor to ping, peerHTTPOkay accepts no parent and no host resolves
ParentWorld ==
    [ArbiterWorld EXCEPT
        !.netdb = {NoNetdb},
        !.parents = {par \in ParVals :
                        \A i, j \in 1..Len(StrategyCode) :
                            (par[i] # NULL /\ par[j] # NULL) => j - i \in {-1, 0, 1}},
        !.log = TRUE]

InitParent ==
    InitWith({r \in MainRequests : r.flags.hierarchical}, MainConfigs,
             {e \in MainEntries : e.present}, ParentWorld)

\* SpecSwitch: every request flag and protocol, every setting of
\* prefer_direct and nonhierarchical_direct, an entry or none; the default
\* parent, the any-parent strategy or no strategy answers; peerHTTPOkay
\* accepts no parent or every parent; each call of the appenders logged
SwitchWorld ==
    [ArbiterWorld EXCEPT
        !.netdb = {NoNetdb},
        !.parents = {NoParent, [NoParent EXCEPT ![1] = "P1"],
                     [NoParent EXCEPT ![8] = "P2"]},
        !.okay = {{}, Parents},
        !.log = TRUE]

InitSwitch ==
    InitWith({r \in Requests : ~r.flags.loopdetect},
             {c \in Configs : /\ c.accessList.AlwaysDirect /\ c.accessList.NeverDirect
                              /\ c.onoff.query_icmp /\ ~c.neighbors_do_private_keys},
             MainEntries, SwitchWorld)

Next ==
    \/ peerSelect
    \/ peerCheckAlwaysDirectDone
    \/ peerCheckNeverDirectDone
    \/ peerHandleIcpReply
    \/ peerHandleHtcpReply
    \/ peerPingTimeout
    \/ DnsResults
    \/ CallerGone

Spec == Init /\ [][Next]_vars

SpecArbiter == InitArbiter /\ [][Next]_vars

SpecReplies == InitReplies /\ [][Next]_vars

SpecMiss == InitMiss /\ [][Next]_vars

SpecSpoof == InitSpoof /\ [][Next]_vars

SpecDns == InitDns /\ [][Next]_vars

SpecDebug == InitDebug /\ [][Next]_vars

SpecPing == InitPing /\ [][Next]_vars

SpecPinned == InitPinned /\ [][Next]_vars

SpecParent == InitParent /\ [][Next]_vars

SpecSwitch == InitSwitch /\ [][Next]_vars

\* SpecFair: the event loop eventually runs a completed ACL check, a pending
\* timer event and a completed DNS lookup
FairWorld ==
    [MainWorld EXCEPT
        !.pinned = {pin \in PinVals : ~pin.conn},
        !.neighbors = {nb \in NbVals : /\ nb.digest = NULL /\ nb.closest = NULL
                                       /\ nb.count = 1},
        !.netdb = {NoNetdb},
        !.repliers = {"P1"},
        !.htcp = {h \in HtcpReplies : h.hit /\ h.cto_rtt = 0}]

InitFair ==
    InitWith(MainRequests, MainConfigs, MainEntries, FairWorld)

SpecFair ==
    /\ InitFair /\ [][Next]_vars
    /\ WF_vars(peerCheckAlwaysDirectDone)
    /\ WF_vars(peerCheckNeverDirectDone)
    /\ WF_vars(peerPingTimeout)
    /\ WF_vars(DnsResults)

(***************************************************************************)
(* Properties                                                              *)
(***************************************************************************)
DirectCodes == {"HIER_DIRECT", "CLOSEST_DIRECT"}

\* the records the reply aggregator (peerGetSomeNeighborReplies) appended
AggregatorCodes == {"CLOSEST_DIRECT", "PARENT_HIT", "SIBLING_HIT",
                    "CLOSEST_PARENT_MISS", "FIRST_PARENT_MISS"}
IsAggregatorRecord(fs) == fs.code \in AggregatorCodes
AggregatorRecords == SelectSeq(hist.appended, IsAggregatorRecord)

\* C1: the callback is invoked at most once, and exactly once by the time the
\* context is released if the caller's reference is still valid; once it has
\* fired the context is released, and no handler changes a released context.
C1_CallbackState ==
    /\ hist.callbacks <= 1
    /\ (ps.freed /\ ev.caller_valid) => hist.callbacks = 1
    /\ hist.callbacks = 1 => ps.freed
C1_CallbackOnce ==
    /\ []C1_CallbackState
    /\ [][ps.freed => UNCHANGED <<ps, entry, paths, PeerStats, hist>>]_vars

\* C1 witness: both ACL checks ran, a reply finalized the ping phase, the ping
\* timer fired during the DNS stage, and the callback was delivered once.
C1_Witness ==
    /\ ps.freed /\ hist.callbacks = 1
    /\ hist.early_final /\ PeerStats.timeouts = 1
    /\ Len(hist.acl_checks) = 2

\* C2: paths never holds more than forward_max_tries destinations.
C2_PathsBounded == Len(paths) <= forward_max_tries

\* C2 witness: the cap was reached with forward-server records still queued.
C2_Witness ==
    /\ Len(paths) = forward_max_tries
    /\ ps.servers # <<>>
    /\ ps.freed

\* C3: once the caller's reference is invalid the callback is not invoked, and
\* the context is nevertheless released, which unlocks the request and the
\* entry and leaves ping_status DONE.
C3_CancelledState ==
    /\ ~ev.caller_valid => hist.callbacks = 0
    /\ ps.freed => /\ ev.request_locks = 0
                   /\ entry.present => /\ entry.lock_count = 0
                                        /\ entry.ping_status = "PING_DONE"
C3_CancelledNoCallback ==
    /\ []C3_CancelledState
    /\ ~ev.caller_valid ~> ps.freed

\* C3 witness: the caller went away while replies were awaited and the context
\* was released at the end of the DNS stage.
C3_Witness ==
    /\ ps.freed /\ ~ev.caller_valid
    /\ entry.present /\ hist.timers_added = 1
    /\ hist.early_final
    /\ hist.appended # <<>> /\ ps.servers = <<>>

\* C4: ping_status only moves NONE -> WAITING, NONE -> DONE or WAITING -> DONE;
\* it is DONE when the callback is invoked and not WAITING after the callback
\* or after the release.
C4_PingStatusState ==
    /\ (hist.callbacks > 0 /\ entry.present) =>
           (hist.cb_ping_status = "PING_DONE" /\ entry.ping_status # "PING_WAITING")
    /\ (ps.freed /\ entry.present) => entry.ping_status # "PING_WAITING"
C4_PingStatus ==
    /\ []C4_PingStatusState
    /\ [][entry.ping_status' # entry.ping_status =>
              <<entry.ping_status, entry.ping_status'>> \in
                  {<<"PING_NONE", "PING_WAITING">>, <<"PING_NONE", "PING_DONE">>,
                   <<"PING_WAITING", "PING_DONE">>}]_vars

\* C4 witness: a selection that waited for replies delivered its callback.
C4_Witness ==
    /\ entry.present /\ hist.callbacks = 1
    /\ hist.timers_added = 1

\* C5: with direct == YES no ping is sent, no timer is installed and
\* ping_status is DONE without having been WAITING.
C5_DirectYesNoPing ==
    ps.direct = "DIRECT_YES" =>
        /\ hist.udp_pings = 0
        /\ hist.timers_added = 0
        /\ ev.timer = 0
        /\ entry.present => entry.ping_status = "PING_DONE"

\* C5 witness: direct == YES for a hierarchical request with a cache entry.
C5_Witness ==
    /\ ps.direct = "DIRECT_YES"
    /\ entry.present /\ request.flags.hierarchical
    /\ hist.appended # <<>>

\* C6: with direct == NO no HIER_DIRECT or CLOSEST_DIRECT record is appended
\* to servers and no destination in paths carries either type.
C6_DirectNoNoDirect ==
    ps.direct = "DIRECT_NO" =>
        /\ \A i \in 1..Len(hist.appended) : hist.appended[i].code \notin DirectCodes
        /\ \A i \in 1..Len(paths) : paths[i].peerType \notin DirectCodes

\* C6 witness: direct == NO, replies finalized the ping phase, the timer fired
\* later and destinations were resolved.
C6_Witness ==
    /\ ps.direct = "DIRECT_NO"
    /\ hist.early_final /\ PeerStats.timeouts = 1
    /\ paths # <<>>

\* the first matching rule of the arbiter, from the ACL answers, the request
\* flags and the net-db answers it read
ArbiterRule ==
    IF ps.always_direct > 0 THEN "DIRECT_YES"
    ELSE IF ps.never_direct > 0 THEN "DIRECT_NO"
    ELSE IF request.flags.no_direct THEN "DIRECT_NO"
    ELSE IF request.flags.loopdetect THEN "DIRECT_YES"
    ELSE IF \/ hist.netdb_arbiter.rtt \in 1..minDirectRtt
            \/ hist.netdb_arbiter.hops \in 1..minDirectHops
         THEN "DIRECT_YES"
    ELSE "DIRECT_MAYBE"

\* C7: direct is assigned once, from UNKNOWN, to the value of the first
\* matching rule; never_direct is checked only after always_direct is absent
\* or denied; once direct is decided it does not change and no ACL check is
\* launched.
C7_ArbiterState ==
    /\ ps.direct # "DIRECT_UNKNOWN" => ps.direct = ArbiterRule
    /\ (\E i \in 1..Len(hist.acl_checks) : hist.acl_checks[i] = "NeverDirect") =>
           (ps.always_direct < 0 \/ ~Config.accessList.AlwaysDirect)
    /\ ps.always_direct > 0 => Config.accessList.AlwaysDirect
    /\ ps.never_direct > 0 => Config.accessList.NeverDirect
C8_OneOutstanding ==
    /\ ev.acl <= 1
    /\ ev.dns <= 1
    /\ ev.timer <= 1

\* C9: once a reply has finalized the ping phase (HIT or all expected
\* replies) peerPingTimeout does not run for the context.
C9_TimerCancelled ==
    hist.early_final => (PeerStats.timeouts = 0 /\ ps.ping.timedout = 0)

\* the forward-server record of the first ICP_HIT received
FirstHitRecord ==
    [_peer |-> hist.first_hit,
     code |-> IF neighborType(hist.first_hit) = "PEER_PARENT"
              THEN "PARENT_HIT" ELSE "SIBLING_HIT"]

\* C10 as claimed: after an ICP_HIT the ping phase is finalized at once and
\* the aggregator's record is the first HIT's peer.
C10_HitRecordAlways ==
    hist.first_hit # NULL =>
        /\ entry.ping_status = "PING_DONE"
        /\ AggregatorRecords = <<FirstHitRecord>>

\* C10 amended: after an ICP_HIT the ping phase is finalized at once; the
\* aggregator appends one record, (none, CLOSEST_DIRECT) when the net-db direct
\* check succeeds at finalization and the first HIT's peer otherwise, and
\* never a CLOSEST_PARENT_MISS or FIRST_PARENT_MISS record.
C10_HitRecord ==
    hist.first_hit # NULL =>
        /\ entry.ping_status = "PING_DONE"
        /\ AggregatorRecords =
               IF hist.netdb_replies
               THEN <<[_peer |-> NULL, code |-> "CLOSEST_DIRECT"]>>
               ELSE <<FirstHitRecord>>

\* C10 witness: a parent MISS reply set closest_parent_miss, then an ICP_HIT
\* arrived before the last expected reply and its peer was appended.
C10_Witness ==
    /\ hist.first_hit # NULL
    /\ ps.closest_parent_miss # ANY_ADDR
    /\ ps.ping.n_recv < ps.ping.n_replies_expected
    /\ AggregatorRecords = <<FirstHitRecord>>

PositiveRtts == {i \in 1..Len(hist.rtt_replies) : hist.rtt_replies[i].rtt > 0}

\* the first position that reports the minimum positive rtt
FirstMinRtt ==
    CHOOSE i \in PositiveRtts :
        \A j \in PositiveRtts :
            \/ hist.rtt_replies[i].rtt < hist.rtt_replies[j].rtt
            \/ (hist.rtt_replies[i].rtt = hist.rtt_replies[j].rtt /\ i <= j)

\* C12: after each parent MISS reply with RTT data closest_parent_miss is the
\* peer that reported the minimum positive rtt so far, p_rtt is that minimum,
\* and of two peers with the same minimum the first one processed is kept.
C12_ClosestParentMiss ==
    IF PositiveRtts = {}
    THEN ps.closest_parent_miss = ANY_ADDR /\ ps.ping.p_rtt = 0
    ELSE /\ ps.closest_parent_miss = hist.rtt_replies[FirstMinRtt]._peer
         /\ ps.ping.p_rtt = hist.rtt_replies[FirstMinRtt].rtt

\* C12 witness: three replies with RTT data; the second and the third report
\* the same minimum from different peers, and the second one's peer is kept.
C12_Witness ==
    /\ Len(hist.rtt_replies) = 3
    /\ hist.rtt_replies[1].rtt > hist.rtt_replies[2].rtt
    /\ hist.rtt_replies[2].rtt = hist.rtt_replies[3].rtt
    /\ hist.rtt_replies[2].rtt > 0
    /\ hist.rtt_replies[2]._peer # hist.rtt_replies[3]._peer
    /\ ps.closest_parent_miss = hist.rtt_replies[2]._peer

\* C13 as claimed: with spoof_client_ip set every destination in paths has the
\* client's address family.
C13_FamilyAlways ==
    request.flags.spoof_client_ip =>
        \A i \in 1..Len(paths) :
            IsIPv4(paths[i].remote) = request.client_addr_IsIPv4

\* C13 amended: with spoof_client_ip set, every destination appended for a
\* forward-server record that is direct or whose peer does not set no_tproxy
\* has the client's address family; the addresses of a no_tproxy peer are
\* not filtered.
C13_FamilyUnlessNoTproxy ==
    [][(/\ request.flags.spoof_client_ip
        /\ Len(paths') > Len(paths)
        /\ ~(Head(ps.servers)._peer # NULL /\ no_tproxy(Head(ps.servers)._peer))) =>
          \A i \in (Len(paths) + 1)..Len(paths') :
              IsIPv4(paths'[i].remote) = request.client_addr_IsIPv4]_vars

\* C13 witness: an IPv6 client with spoof_client_ip; of a direct record's two
\* addresses the IPv4 one was skipped and the IPv6 one is the only destination.
C13_Witness ==
    /\ request.flags.spoof_client_ip /\ ~request.client_addr_IsIPv4
    /\ ps.freed
    /\ Len(paths) = 1
    /\ paths[1].peerType = "HIER_DIRECT" /\ ~IsIPv4(paths[1].remote)

\* C14: once the context is freed no forward-server record remains allocated:
\* every record appended to servers was consumed by the DNS stage or released.
C14_ServersReleased == ps.freed => ps.servers = <<>>

\* the number of destinations that the x-th DNS result appended to paths
DnsAppended(x) ==
    (IF x < Len(hist.dns_log) THEN hist.dns_log[x + 1].at ELSE Len(paths))
        - hist.dns_log[x].at

\* C15: forward-server records are resolved in the order they were appended,
\* and the destinations of one DNS result are in_addrs[cur], in_addrs[cur+1],
\* ... wrapping around, so the first destination is the address at index cur.
C15_RotatedOrder ==
    \A x \in 1..Len(hist.dns_log) :
        LET d == hist.dns_log[x]
        IN /\ d.fs = hist.appended[x]
           /\ \A j \in 1..DnsAppended(x) :
                  /\ paths[d.at + j].remote =
                         d.ia.in_addrs[((d.ia.cur + j - 1) % d.ia.count) + 1]
                  /\ paths[d.at + j].peerType = d.fs.code

\* the record the aggregator's priority gives for the context x and the
\* outcome netdb of the net-db direct check
AggregatorChoice(x, netdb) ==
    IF netdb THEN <<[_peer |-> NULL, code |-> "CLOSEST_DIRECT"]>>
    ELSE IF x.hit # NULL
         THEN <<[_peer |-> x.hit,
                 code |-> IF x.hit_type = "PEER_PARENT"
                          THEN "PARENT_HIT" ELSE "SIBLING_HIT"]>>
    ELSE IF x.closest_parent_miss # ANY_ADDR
         THEN <<[_peer |-> x.closest_parent_miss, code |-> "CLOSEST_PARENT_MISS"]>>
    ELSE IF x.first_parent_miss # ANY_ADDR
         THEN <<[_peer |-> x.first_parent_miss, code |-> "FIRST_PARENT_MISS"]>>
    ELSE <<>>

\* a step in which the aggregator finalizes: ping_status leaves WAITING, and
\* not by the ping timer's abort of a cancelled selection
AggregatorStep ==
    /\ entry.ping_status = "PING_WAITING"
    /\ entry.ping_status' = "PING_DONE"
    /\ ~(ev.timer' < ev.timer /\ ~ev.caller_valid)

\* C16: the aggregator appends at most one record, by the priority net-db
\* direct check, hit, closest_parent_miss, first_parent_miss, nothing; a
\* first_parent_miss is not used when closest_parent_miss is set.
C16_AggregatorPriority ==
    /\ [](Len(AggregatorRecords) <= 1)
    /\ [][AggregatorStep =>
              SelectSeq(SubSeq(hist.appended', Len(hist.appended) + 1,
                               Len(hist.appended')), IsAggregatorRecord)
                  = AggregatorChoice(ps', hist.netdb_replies')]_vars

\* C16 witness: first_parent_miss was recorded, a later reply set
\* closest_parent_miss, no HIT came, and the aggregator appended the closest
\* parent.
C16_Witness ==
    /\ ps.first_parent_miss # ANY_ADDR
    /\ ps.closest_parent_miss # ANY_ADDR
    /\ ps.first_parent_miss # ps.closest_parent_miss
    /\ ps.hit = NULL
    /\ AggregatorRecords =
           <<[_peer |-> ps.closest_parent_miss, code |-> "CLOSEST_PARENT_MISS"]>>

\* a ping was sent, a timer installed or ping_status is WAITING
PingTraces ==
    \/ hist.udp_pings > 0
    \/ hist.timers_added > 0
    \/ (entry.present /\ entry.ping_status = "PING_WAITING")

\* C17 as claimed: pings are sent only if the request is hierarchical or
\* direct == NO, and for a privately keyed entry only if private-key peer
\* exchange is allowed; otherwise no ping, no timer and no WAITING.
C17_PingPermitted ==
    PingTraces =>
        /\ request.flags.hierarchical \/ ps.direct = "DIRECT_NO"
        /\ entry.KEY_PRIVATE => Config.neighbors_do_private_keys

\* C17 amended: pings are sent only if the request is hierarchical or
\* direct == NO, and for a privately keyed entry with direct # NO only if
\* private-key peer exchange is allowed; otherwise no ping, no timer and no
\* WAITING.
C17_PingPermittedUnlessNo ==
    PingTraces =>
        /\ request.flags.hierarchical \/ ps.direct = "DIRECT_NO"
        /\ (entry.KEY_PRIVATE /\ ps.direct # "DIRECT_NO") =>
               Config.neighbors_do_private_keys

\* C17 witness: a privately keyed entry was pinged with direct MAYBE because
\* the configuration allows private-key peer exchange.
C17_Witness ==
    /\ entry.present /\ entry.KEY_PRIVATE
    /\ Config.neighbors_do_private_keys
    /\ ps.direct = "DIRECT_MAYBE"
    /\ hist.udp_pings > 0 /\ hist.timers_added > 0
    /\ entry.ping_status = "PING_WAITING"

\* the records appended by the step
NewRecords ==
    SubSeq(hist.appended', Len(hist.appended) + 1, Len(hist.appended'))

\* C18: when the ping timer fires while ping_status is WAITING and the caller
\* is valid, timeouts grows by one, ping.timedout is set, the aggregator
\* finalizes by its usual priority with the replies received, ping_status is
\* DONE, and selection goes on to the direct record and the DNS stage.
C18_TimeoutFinalizes ==
    [][(/\ ev.timer' < ev.timer
        /\ entry.ping_status = "PING_WAITING"
        /\ ev.caller_valid) =>
          /\ PeerStats'.timeouts = PeerStats.timeouts + 1
          /\ ps'.ping.timedout = 1
          /\ ps'.ping.n_recv = ps.ping.n_recv
          /\ entry'.ping_status = "PING_DONE"
          /\ SelectSeq(NewRecords, IsAggregatorRecord)
                 = AggregatorChoice(ps', hist.netdb_replies')
          /\ ps.direct # "DIRECT_NO" =>
                 \E i \in 1..Len(NewRecords) : NewRecords[i].code = "HIER_DIRECT"
          /\ IF hist.appended' # <<>>
             THEN ev.dns' = ev.dns + 1 /\ ~ps'.freed
             ELSE ps'.freed /\ hist.callbacks' = hist.callbacks + 1]_vars

\* C18 witness: the timer fired after one parent MISS of several expected
\* replies; the aggregator appended that parent and a DNS lookup is running.
C18_Witness ==
    /\ PeerStats.timeouts = 1 /\ ps.ping.timedout = 1
    /\ ~hist.early_final
    /\ ps.ping.n_recv = 1 /\ ps.ping.n_replies_expected > 1
    /\ AggregatorRecords =
           <<[_peer |-> ps.first_parent_miss, code |-> "FIRST_PARENT_MISS"]>>
    /\ ev.dns = 1

\* C19: a handler that resumes a context whose caller reference is already
\* invalid destroys the context in that step and starts no ACL check, ping,
\* timer or DNS lookup.
C19_CancelAtResume ==
    [][(~ev.caller_valid /\ ~ps.freed /\ ps' # ps) =>
          /\ ps'.freed
          /\ ev'.acl <= ev.acl /\ ev'.dns <= ev.dns /\ ev'.timer <= ev.timer
          /\ hist'.udp_pings = hist.udp_pings]_vars

\* C20: every released context has reached the end of the DNS stage (servers
\* empty or paths at forward_max_tries).
C20_EndOfDnsStage ==
    ps.freed => (ps.servers = <<>> \/ Len(paths) >= forward_max_tries)

\* a started context that is not yet released has an ACL check, a DNS lookup
\* or the ping timer outstanding; a context released while the caller is
\* valid is at the end of the DNS stage and has called back once; a cancelled
\* one has not called back
C20_Progress ==
    /\ (hist.started /\ ~ps.freed) =>
           (ev.acl > 0 \/ ev.dns > 0 \/ ev.timer > 0)
    /\ (ps.freed /\ ev.caller_valid) =>
           /\ ps.servers = <<>> \/ Len(paths) >= forward_max_tries
           /\ hist.callbacks = 1
    /\ (ps.freed /\ ~ev.caller_valid) => hist.callbacks = 0

\* termination: the outstanding completions being delivered, every started
\* context is released
C20_Terminates ==
    /\ []C20_Progress
    /\ hist.started ~> ps.freed

\* a selection that went through both ACL checks, waited for
\* replies, timed out, resolved two forward servers and called back.
C20_Witness ==
    /\ ps.freed /\ hist.callbacks = 1
    /\ Len(hist.acl_checks) = 2
    /\ PeerStats.timeouts = 1 /\ ~hist.early_final
    /\ Len(hist.appended) >= 2 /\ ps.servers = <<>>
    /\ paths # <<>>

\* the calls logged by the step
NewCalls ==
    SubSeq(hist.calls', Len(hist.calls) + 1, Len(hist.calls'))

\* the records appended by the call logged at position k of hist.calls', up to
\* the next logged call or the end of the step
AppendedByCall(k) ==
    SubSeq(hist.appended', hist.calls'[k].at + 1,
           IF k < Len(hist.calls') THEN hist.calls'[k + 1].at
           ELSE Len(hist.appended'))

\* the record the parent selector is to append for the answers par
FirstStrategy(par) ==
    IF par[1] # NULL THEN <<[_peer |-> par[1], code |-> "DEFAULT_PARENT"]>>
    ELSE IF par[2] # NULL THEN <<[_peer |-> par[2], code |-> "USERHASH_PARENT"]>>
    ELSE IF par[3] # NULL THEN <<[_peer |-> par[3], code |-> "SOURCEHASH_PARENT"]>>
    ELSE IF par[4] # NULL THEN <<[_peer |-> par[4], code |-> "CARP"]>>
    ELSE IF par[5] # NULL THEN <<[_peer |-> par[5], code |-> "ROUNDROBIN_PARENT"]>>
    ELSE IF par[6] # NULL THEN <<[_peer |-> par[6], code |-> "ROUNDROBIN_PARENT"]>>
    ELSE IF par[7] # NULL THEN <<[_peer |-> par[7], code |-> "FIRSTUP_PARENT"]>>
    ELSE IF par[8] # NULL THEN <<[_peer |-> par[8], code |-> "ANY_OLD_PARENT"]>>
    ELSE <<>>

\* C21: each call of the parent selector appends at most one record, the peer
\* of the first strategy that answers in the order default, user-hash,
\* source-hash, CARP, round-robin, weighted round-robin, first-up, any-parent
\* with that strategy's code, and nothing when no strategy answers or direct
\* is YES.
C21_FirstStrategyWins ==
    [][\A k \in (Len(hist.calls) + 1)..Len(hist.calls') :
           hist.calls'[k].fn = "peerGetSomeParent" =>
               /\ Len(hist.par_log') = Len(hist.par_log) + 1
               /\ Len(AppendedByCall(k)) <= 1
               /\ AppendedByCall(k) =
                      IF ps'.direct = "DIRECT_YES" THEN <<>>
                      ELSE FirstStrategy(hist.par_log'[Len(hist.par_log')])]_vars

\* C21 witness: the default parent and the source-hash strategy gave no peer,
\* user-hash gave P2 and a later strategy P1, and P2 was appended as
\* USERHASH_PARENT, followed by the direct record.
C21_Witness ==
    /\ hist.par_log # <<>>
    /\ hist.par_log[1][1] = NULL /\ hist.par_log[1][2] = "P2"
    /\ \E i \in 3..8 : hist.par_log[1][i] = "P1"
    /\ ps.direct = "DIRECT_MAYBE"
    /\ hist.appended = <<[_peer |-> "P2", code |-> "USERHASH_PARENT"],
                         [_peer |-> NULL, code |-> "HIER_DIRECT"]>>

\* the appenders of the post-neighbor phase called by the step, in call order
PostCalls ==
    LET post == SelectSeq(NewCalls,
                    LAMBDA c : c.fn \in {"peerGetSomeDirect", "peerGetSomeParent",
                                         "peerGetAllParents"})
    IN [i \in 1..Len(post) |-> post[i].fn]

\* the records appended by the step from its first post-neighbor call on
PostRecords ==
    LET post == SelectSeq(NewCalls,
                    LAMBDA c : c.fn \in {"peerGetSomeDirect", "peerGetSomeParent",
                                         "peerGetAllParents"})
    IN SubSeq(hist.appended', post[1].at + 1, Len(hist.appended'))

\* the direct record, which the direct appender leaves out for WAIS
DirectRecord ==
    IF request.protocol = "PROTO_WAIS" THEN <<>>
    ELSE <<[_peer |-> NULL, code |-> "HIER_DIRECT"]>>

\* the record of the parent selector in a step that called it
ParentRecord == FirstStrategy(hist.par_log'[Len(hist.par_log')])

\* C22: a step that runs the post-neighbor phase calls, for direct YES, only
\* the direct appender; for NO, the parent selector then the all-parents
\* fallback, and no direct record is appended; for MAYBE, the parent selector
\* only if the request is hierarchical or nonhierarchical_direct is off, with
\* the direct record before the parent record when prefer_direct is on and
\* after it when prefer_direct is off.
C22_PostNeighborOrder ==
    [][PostCalls # <<>> =>
         IF ps'.direct = "DIRECT_YES"
         THEN /\ PostCalls = <<"peerGetSomeDirect">>
              /\ PostRecords = DirectRecord
         ELSE IF ps'.direct = "DIRECT_NO"
         THEN /\ PostCalls = <<"peerGetSomeParent", "peerGetAllParents">>
              /\ SubSeq(PostRecords, 1, Len(ParentRecord)) = ParentRecord
              /\ \A i \in 1..Len(PostRecords) : PostRecords[i].code # "HIER_DIRECT"
         ELSE LET parent == request.flags.hierarchical
                                \/ ~Config.onoff.nonhierarchical_direct
                  rec == IF parent THEN ParentRecord ELSE <<>>
              IN /\ ps'.direct = "DIRECT_MAYBE"
                 /\ ("peerGetSomeParent" \in {PostCalls[i] : i \in 1..Len(PostCalls)})
                        <=> parent
                 /\ PostRecords = IF Config.onoff.prefer_direct
                                  THEN DirectRecord \o rec
                                  ELSE rec \o DirectRecord]_vars

\* C22 witness: direct MAYBE with prefer_direct on and a request that is not
\* hierarchical while nonhierarchical_direct is off: the direct record was
\* appended before the default parent.
C22_Witness ==
    /\ ps.direct = "DIRECT_MAYBE"
    /\ Config.onoff.prefer_direct /\ ~Config.onoff.nonhierarchical_direct
    /\ ~request.flags.hierarchical
    /\ hist.appended = <<[_peer |-> NULL, code |-> "HIER_DIRECT"],
                         [_peer |-> "P1", code |-> "DEFAULT_PARENT"]>>

\* the DNS result handled by the step, if it handled one
NewDnsResult == hist.dns_log'[Len(hist.dns_log')]

NewPin == hist.pin_log'[Len(hist.pin_log')]

\* the functions whose calls the step logged
NewCallSet == {NewCalls[i].fn : i \in 1..Len(NewCalls)}

\* C24: a step that probes the pinned connection and finds a validated one
\* to a usable peer, or to no peer while direct # NO, appends the PINNED
\* record as the first record of the selection, sets ping_status of an entry
\* to DONE, makes no neighbor query (no digest or net-db lookup, ping or
\* timer) and runs the post-neighbor selection and the DNS stage; a step that
\* finds neither appends no PINNED record and goes on to the neighbor phase
\* of an entry; a selection with a PINNED record never pinged or waited.
C24_Pinned ==
    /\ []((hist.appended # <<>> /\ hist.appended[1].code = "PINNED") =>
              /\ hist.udp_pings = 0 /\ hist.timers_added = 0
              /\ entry.present => entry.ping_status = "PING_DONE")
    /\ [][Len(hist.pin_log') > Len(hist.pin_log) =>
            IF /\ NewPin.conn /\ NewPin.open
               /\ \/ NewPin.pear # NULL /\ NewPin.allowed
                  \/ NewPin.pear = NULL /\ ps'.direct # "DIRECT_NO"
            THEN /\ hist.appended = <<>>
                 /\ NewRecords # <<>>
                 /\ NewRecords[1] = [_peer |-> NewPin.pear, code |-> "PINNED"]
                 /\ \A i \in 2..Len(NewRecords) : NewRecords[i].code # "PINNED"
                 /\ entry.present => entry'.ping_status = "PING_DONE"
                 /\ "peerGetSomeNeighbor" \notin NewCallSet
                 /\ hist.udp_pings' = 0 /\ ev.timer' = 0
                 /\ PostCalls # <<>>
                 /\ ev.dns' = 1 /\ ~ps'.freed
            ELSE /\ \A i \in 1..Len(NewRecords) : NewRecords[i].code # "PINNED"
                 /\ entry.present => "peerGetSomeNeighbor" \in NewCallSet]_vars

\* C24 witness: a request pinned to no peer, direct MAYBE, an entry: the
\* PINNED record is first, the direct record follows, ping_status is DONE and
\* the DNS lookup of the first record is running.
C24_Witness ==
    /\ hist.pin_log # <<>>
    /\ hist.pin_log[1].conn /\ hist.pin_log[1].open /\ hist.pin_log[1].pear = NULL
    /\ ps.direct = "DIRECT_MAYBE"
    /\ entry.present /\ entry.ping_status = "PING_DONE"
    /\ Len(ps.servers) >= 2
    /\ ps.servers[1] = [_peer |-> NULL, code |-> "PINNED"]
    /\ ps.servers[2].code = "HIER_DIRECT"
    /\ ev.dns = 1

\* C25: within one selection the post-neighbor phase runs at most once: the
\* parent selector is called at most once, and the records ever appended
\* hold at most one HIER_DIRECT record.
C25_PostNeighborOnce ==
    /\ Len(hist.par_log) <= 1
    /\ Cardinality({i \in 1..Len(hist.appended) :
                        hist.appended[i].code = "HIER_DIRECT"}) <= 1

====
